---- MODULE Spec2Model ----
(***************************************************************************)
(* Model of server.py: three background refresh loops (Pronote timetable,  *)
(* transport, dinners), the three in-memory caches they fill, the single   *)
(* lock that guards the caches, and the Flask routes that read them.       *)
(*                                                                         *)
(* The wall clock is the variable now, in seconds since a Monday 00:00:00. *)
(* Every statement of the source that samples the clock (datetime.now(),   *)
(* date.today(), time.sleep) is a step of its own, so the clock can move   *)
(* between any two samples.                                                *)
(***************************************************************************)
EXTENDS Integers, Sequences, FiniteSets, TLC

\* ---------------------------------------------------------------- bounds
\* Number of request threads (concurrent HTTP requests).
NumReaders == 1
\* Clock ticks a run is followed for: one loop running and no request, ...
LongHorizon == 9
\* ... one loop running and requests being served, ...
ReadHorizon == 5
\* ... and all three loops running.
BurstHorizon == 0
\* ... and the two loops with a night rule, under fair scheduling.
LiveHorizon == 1
\* Clock resolution of the model: the clock moves from one multiple of
\* TickSecs to the next, stopping on the way at the end of every time.sleep.
\* Every boundary of the source (07:15, 09:00, 12:00, 22:00, midnight) is a
\* multiple of it.
TickSecs == 15 * 60

\* ------------------------------------------------------ program constants
NIGHT_START_MINS == 22 * 60
NIGHT_END_MINS   == 7 * 60 + 15
PEAK_END_MINS    == 9 * 60
PEAK_DELAY       == 600
OFFPEAK_DELAY    == 3600
PRONOTE_SLEEP    == 3600
DINNERS_SLEEP    == 3600
NOON_HOUR        == 12
SATURDAY         == 5

\* None of Python; every cached value is a tuple, so None is the empty one.
None == <<>>

Loops   == {"timetable", "transport", "dinners"}
NightLoops == {"timetable", "transport"}
Readers == 1..NumReaders

\* Thread identities, used as the holder of _lock (0: not held).
Free == 0
LoopTid(s) == CASE s = "timetable" -> 1 [] s = "transport" -> 2 [] s = "dinners" -> 3
ReaderTid(r) == 3 + r

\* ------------------------------------------------------------ the clock
DaySecs == 24 * 3600
Clock(day, h, m) == day * DaySecs + h * 3600 + m * 60

\* date.today(): the day number; day 0 is a Monday.
DateToday(t) == t \div DaySecs
\* date.weekday(): 0 = Monday ... 6 = Sunday.
WeekdayOf(d) == d % 7
\* datetime.now().hour and .minute
HourOf(t) == (t % DaySecs) \div 3600
MinuteOf(t) == ((t % DaySecs) % 3600) \div 60
\* datetime.now().strftime("%H:%M"): the date is dropped.
StrfHM(t) == <<HourOf(t), MinuteOf(t)>>
\* str(date): one string per date.
DateStr(d) == <<d>>

\* Variant: 07:15 itself counted as night.
NightMinsLate(total) == total >= NIGHT_START_MINS \/ total <= NIGHT_END_MINS
\* Variant: the two bounds joined by "and", which no total_mins satisfies.
NightMinsAnd(total) == total >= NIGHT_START_MINS /\ total < NIGHT_END_MINS
\* _is_night's and train_refresh_delay's test on total_mins.
NightMins(total) == total >= NIGHT_START_MINS \/ total < NIGHT_END_MINS

\* Variant: "target < now", which gives 0 at 07:15:00 sharp.
secs_until_715_strict(t) ==
    LET target == DateToday(t) * DaySecs + 7 * 3600 + 15 * 60
    IN  IF target < t THEN (target + DaySecs) - t ELSE target - t
\* _secs_until_715 called at instant t.
secs_until_715(t) ==
    LET target == DateToday(t) * DaySecs + 7 * 3600 + 15 * 60
    IN  IF target <= t THEN (target + DaySecs) - t ELSE target - t

\* _current_monday called at instant t.
current_monday_at(t) == DateToday(t) - WeekdayOf(DateToday(t))

\* The minutes of a day.
DayMinutes == 0 .. (24 * 60 - 1)

\* The runs explored: the instant the process starts, the number of ticks
\* it is followed for, the loops the scheduler lets run during that time
\* (the others have been started and have not run yet), and the number of
\* request threads that serve requests.
Scenarios == {
    \* Monday 07:00: end of the night, then the morning peak
    <<Clock(0, 7, 0), LongHorizon, {"timetable"}, 0>>,
    <<Clock(0, 7, 0), BurstHorizon + 3, {"transport"}, 0>>,
    \* Wednesday 08:45: peak to off-peak, dinners window closed
    <<Clock(2, 8, 45), ReadHorizon, {"timetable"}, NumReaders>>,
    <<Clock(2, 8, 45), BurstHorizon + 1, {"transport"}, NumReaders>>,
    <<Clock(2, 8, 45), LongHorizon, {"dinners"}, 0>>,
    \* Saturday 21:45: start of the night, dinners window open
    <<Clock(5, 21, 45), BurstHorizon, Loops, 0>>,
    <<Clock(5, 21, 45), LongHorizon, {"timetable"}, 0>>,
    <<Clock(5, 21, 45), BurstHorizon + 3, {"transport"}, 0>>,
    \* Sunday 23:45: week change
    <<Clock(6, 23, 45), LongHorizon, {"dinners"}, 0>>,
    <<Clock(6, 23, 45), ReadHorizon, {"dinners"}, NumReaders>>,
    \* Monday 23:45: dinners window closed since noon
    <<Clock(7, 23, 45), ReadHorizon, {"dinners"}, 0>> }
    \cup
    \* every minute of a Wednesday, the clock standing still: one iteration
    \* of a loop with a night rule, its policy functions applied to one instant
    { <<Clock(2, 0, m), 0, {s}, 0>> : m \in DayMinutes, s \in NightLoops }

VARIABLES
    now,            \* the wall clock
    deadline,       \* the clock value at which the exploration stops
    run,            \* the refresh loops the scheduler runs in this exploration
    clients,        \* the number of request threads serving requests in it
    lock,           \* holder of _lock, or Free
    cache,          \* _cache, _transport_cache, _dinners_cache
    pc,             \* position of each refresh loop
    hr,             \* first clock sample of _is_night / train_refresh_delay
    total_mins,     \* total_mins of _is_night
    data,           \* local: value returned by the producer
    exc,            \* local: str(exc) of the exception caught
    secs,           \* local: secs (lines 150, 239)
    delay,          \* the argument of the coming time.sleep
    wake,           \* end of the running time.sleep
    weekday,        \* dinners loop locals (lines 392-404)
    current_monday,
    cached_week,
    should_refresh,
    rpc,            \* position of each request thread
    rslot,          \* the cache its request is for
    resp,           \* the response to its last request
    attempts,       \* history: producer calls finished, per loop
    lastOk,         \* history: value returned by the last successful call
    prevOk,         \* history: value returned by the successful call before it
    lastMsg,        \* history: message of the last failed call
    outcomes,       \* history: "ok" / "fail" of each finished call
    committed,      \* history: cache contents at each release by the writer
    acqAt,          \* history: clock when the loop took the lock to write
    checkAt,        \* history: clock when the running dinners check began
    okWeeks,        \* history: Monday of the week of each dinners success write
    sampledAt,      \* history: clock at the first of the two reads in progress
    nightAt,        \* history: clock when _is_night returned True in this iteration
    hung            \* loops whose producer call never returns

envVars    == <<deadline, run, clients>>
localVars  == <<hr, total_mins, data, exc, secs, delay, wake>>
dinVars    == <<weekday, current_monday, cached_week, should_refresh, checkAt>>
readerVars == <<rpc, rslot, resp>>
ghostVars  == <<sampledAt, nightAt>>
histVars   == <<attempts, lastOk, prevOk, lastMsg, outcomes, committed, acqAt, okWeeks, hung>>
vars == <<now, deadline, run, clients, lock, cache, pc, hr, total_mins, data, exc,
          secs, delay, wake, weekday, current_monday, cached_week, should_refresh,
          rpc, rslot, resp, attempts, lastOk, prevOk, lastMsg, outcomes, committed,
          acqAt, checkAt, okWeeks, sampledAt, nightAt, hung>>

\* The value of a history variable that records an instant, before any.
Never == 0 - 1

\* Lines 37-39.
EmptyCache == [data |-> None, updated_at |-> None, error |-> None]
EmptyDinnersCache == [data |-> None, updated_at |-> None, error |-> None, week |-> None]

InitAt(t, h, loops, n) ==
    /\ now = t
    /\ deadline = t + h * TickSecs
    /\ run = loops
    /\ clients = n
    /\ lock = Free
    /\ cache = [s \in Loops |-> IF s = "dinners" THEN EmptyDinnersCache ELSE EmptyCache]
    /\ pc = [s \in Loops |-> "loop"]
    /\ hr = [s \in Loops |-> 0]
    /\ total_mins = [s \in Loops |-> 0]
    /\ data = [s \in Loops |-> None]
    /\ exc = [s \in Loops |-> None]
    /\ secs = [s \in Loops |-> 0]
    /\ delay = [s \in Loops |-> 0]
    /\ wake = [s \in Loops |-> 0]
    /\ weekday = 0
    /\ current_monday = None
    /\ cached_week = None
    /\ should_refresh = FALSE
    /\ rpc = [r \in Readers |-> "idle"]
    /\ rslot = [r \in Readers |-> "timetable"]
    /\ resp = [r \in Readers |-> None]
    /\ attempts = [s \in Loops |-> 0]
    /\ lastOk = [s \in Loops |-> None]
    /\ prevOk = [s \in Loops |-> None]
    /\ lastMsg = [s \in Loops |-> None]
    /\ outcomes = [s \in Loops |-> <<>>]
    /\ committed = [s \in Loops |-> {cache[s]}]
    /\ acqAt = [s \in Loops |-> 0]
    /\ checkAt = 0
    /\ okWeeks = <<>>
    /\ sampledAt = [s \in Loops |-> Never]
    /\ nightAt = [s \in Loops |-> Never]
    /\ hung = {}

Init == \E sc \in Scenarios : InitAt(sc[1], sc[2], sc[3], sc[4])

\* Loop s is scheduled and stands at position p; it moves to position q.
Pos(s, p) == s \in run /\ pc[s] = p
Goto(s, q) == pc' = [pc EXCEPT ![s] = q]

\* ------------------------------------------------------------- the lock
\* Variant: acquire that does not wait for the holder (a cache accessed
\* without the lock).
LockIgnored == TRUE
\* threading.Lock: acquire blocks until the lock is not held.
LockAvailable == lock = Free
Acquire(tid) == LockAvailable /\ lock' = tid
\* Variant: the lock is not released after the write of a failure.
ReleaseSkippedOnError == lock' = IF \E s \in Loops : pc[s] = "w_fail" THEN lock ELSE Free
\* The end of a with _lock block.
Release == lock' = Free

\* The cache contents the writer leaves behind when it releases the lock.
Commit(s) == committed' = [committed EXCEPT ![s] = @ \cup {cache'[s]}]

\* -------------------------------------------------------------- _is_night
\* Line 69, first datetime.now(): the hour.
IsNightHour(s) ==
    /\ Pos(s, "loop")
    /\ hr' = [hr EXCEPT ![s] = HourOf(now)]
    /\ Goto(s, "night_min")
    /\ sampledAt' = [sampledAt EXCEPT ![s] = now]
    /\ UNCHANGED <<now, envVars, nightAt, lock, cache, total_mins, data, exc, secs, delay, wake,
                   dinVars, readerVars, histVars>>

\* Line 69, second datetime.now(): the minute; line 70 and the loop's branch
\* on the result (lines 136, 224).
IsNightBranch(total) == IF NightMins(total) THEN "night" ELSE "call"
IsNightMinute(s) ==
    /\ Pos(s, "night_min")
    /\ LET total == hr[s] * 60 + MinuteOf(now) IN
        /\ total_mins' = [total_mins EXCEPT ![s] = total]
        /\ Goto(s, IsNightBranch(total))
    /\ hr' = [hr EXCEPT ![s] = 0]
    /\ sampledAt' = [sampledAt EXCEPT ![s] = Never]
    /\ nightAt' = [nightAt EXCEPT ![s] = IF pc'[s] = "night" THEN now ELSE Never]
    /\ UNCHANGED <<now, envVars, lock, cache, data, exc, secs, delay, wake,
                   dinVars, readerVars, histVars>>

\* ------------------------------------------------------------ producers
\* The values the producers return; n numbers the calls of a loop.
fetch_pronote(n) == <<n>>
\* fetch_trains: each feed's list is left empty when its try block fails.
fetch_trains(n, dlrOk, railOk) ==
    <<n, IF dlrOk THEN <<n>> ELSE <<>>, IF railOk THEN <<n>> ELSE <<>> >>
\* fetch_dinners: "week_of" is the date when the call returns.
fetch_dinners(n, t) == <<n, DateToday(t)>>
\* str(exc) of the exception a failed call raises.
ExcStr(n) == <<"error", n>>

\* Variant: the producer is called inside the with block.
CallProducerUnderLock(s) ==
    /\ Pos(s, "call")
    /\ Acquire(LoopTid(s))
    /\ Goto(s, "fetching")
    /\ total_mins' = [total_mins EXCEPT ![s] = 0]
    /\ UNCHANGED <<now, envVars, ghostVars, cache, hr, data, exc, secs, delay, wake,
                   dinVars, readerVars, histVars>>
\* The loop calls its producer (lines 139, 227, 408).
CallProducer(s) ==
    /\ Pos(s, "call")
    /\ Goto(s, "fetching")
    /\ total_mins' = [total_mins EXCEPT ![s] = 0]
    /\ UNCHANGED <<now, envVars, ghostVars, lock, cache, hr, data, exc, secs, delay, wake,
                   dinVars, readerVars, histVars>>

Returned(s, v) ==
    /\ Pos(s, "fetching")
    /\ s \notin hung
    /\ attempts' = [attempts EXCEPT ![s] = @ + 1]
    /\ data' = [data EXCEPT ![s] = v]
    /\ lastOk' = [lastOk EXCEPT ![s] = v]
    /\ prevOk' = [prevOk EXCEPT ![s] = lastOk[s]]
    /\ outcomes' = [outcomes EXCEPT ![s] = Append(@, "ok")]
    /\ Goto(s, "acq_ok")
    /\ UNCHANGED <<now, envVars, ghostVars, lock, cache, hr, total_mins, exc, secs, delay, wake,
                   dinVars, readerVars, lastMsg, committed, acqAt, okWeeks, hung>>

\* Variant: a feed's exception leaves fetch_trains.
FeedEscapesUncaught(ok) == ~ok
\* Lines 98-99 and 120-121: "except Exception" ends each feed's try block, so
\* no failure of a feed leaves fetch_trains.
FeedEscapes(ok) == FALSE

PronoteReturn == Returned("timetable", fetch_pronote(attempts["timetable"] + 1))
DinnersReturn == Returned("dinners", fetch_dinners(attempts["dinners"] + 1, now))

\* The producer raises; the loop's except clause catches it (lines 144, 233,
\* 418).
Raised(s) ==
    /\ Pos(s, "fetching")
    /\ s \notin hung
    /\ attempts' = [attempts EXCEPT ![s] = @ + 1]
    /\ exc' = [exc EXCEPT ![s] = ExcStr(attempts[s] + 1)]
    /\ lastMsg' = [lastMsg EXCEPT ![s] = ExcStr(attempts[s] + 1)]
    /\ outcomes' = [outcomes EXCEPT ![s] = Append(@, "fail")]
    /\ Goto(s, "acq_err")
    /\ UNCHANGED <<now, envVars, ghostVars, lock, cache, hr, total_mins, data, secs, delay, wake,
                   dinVars, readerVars, lastOk, prevOk, committed, acqAt, okWeeks, hung>>

PronoteRaise == Raised("timetable")
DinnersRaise == Raised("dinners")
\* fetch_trains ends (line 139): every outcome of its two feeds.
TrainsReturn ==
    \E dlrOk \in BOOLEAN, railOk \in BOOLEAN :
        IF FeedEscapes(dlrOk) \/ FeedEscapes(railOk)
          THEN Raised("transport")
          ELSE Returned("transport", fetch_trains(attempts["transport"] + 1, dlrOk, railOk))

\* The producer call never returns (the loops impose no timeout on it).
Hang(s) ==
    /\ Pos(s, "fetching")
    /\ s \notin hung
    /\ hung' = hung \cup {s}
    /\ UNCHANGED <<now, envVars, ghostVars, lock, cache, pc, localVars, dinVars, readerVars,
                   attempts, lastOk, prevOk, lastMsg, outcomes, committed, acqAt, okWeeks>>

\* ------------------------------------------------- writing a cache (loops)
\* "with _lock:" of the success path (lines 140, 228, 409).
AcquireForSuccess(s) ==
    /\ Pos(s, "acq_ok")
    /\ Acquire(LoopTid(s))
    /\ acqAt' = [acqAt EXCEPT ![s] = now]
    /\ Goto(s, "w_data")
    /\ UNCHANGED <<now, envVars, ghostVars, cache, localVars, dinVars, readerVars,
                   attempts, lastOk, prevOk, lastMsg, outcomes, committed, okWeeks, hung>>

\* cache["data"] = data (lines 141, 229, 410).
WriteData(s) ==
    /\ Pos(s, "w_data")
    /\ cache' = [cache EXCEPT ![s].data = data[s]]
    /\ data' = [data EXCEPT ![s] = None]
    /\ okWeeks' = IF s = "dinners" THEN Append(okWeeks, current_monday_at(now))
                                   ELSE okWeeks
    /\ Goto(s, "w_updated_at")
    /\ UNCHANGED <<now, envVars, ghostVars, lock, hr, total_mins, exc, secs, delay, wake, dinVars,
                   readerVars, attempts, lastOk, prevOk, lastMsg, outcomes, committed, acqAt, hung>>

\* cache["updated_at"] = datetime.now().strftime("%H:%M") (lines 142, 230, 411).
WriteUpdatedAt(s) ==
    /\ Pos(s, "w_updated_at")
    /\ cache' = [cache EXCEPT ![s].updated_at = StrfHM(now)]
    /\ Goto(s, "w_error")
    /\ UNCHANGED <<now, envVars, ghostVars, lock, localVars, dinVars, readerVars, histVars>>

\* Variant: the success path leaves the old error in place.
ClearErrorForgotten(c, s) == c
\* cache["error"] = None (lines 143, 231, 412).
ClearError(c, s) == [c EXCEPT ![s].error = None]

\* Line 231 and the end of the with block; line 237 is next.
PronoteWriteError ==
    /\ Pos("timetable", "w_error")
    /\ cache' = ClearError(cache, "timetable")
    /\ Release
    /\ Commit("timetable")
    /\ acqAt' = [acqAt EXCEPT !["timetable"] = 0]
    /\ delay' = [delay EXCEPT !["timetable"] = PRONOTE_SLEEP]
    /\ Goto("timetable", "do_sleep")
    /\ UNCHANGED <<now, envVars, ghostVars, hr, total_mins, data, exc, secs, wake, dinVars, readerVars,
                   attempts, lastOk, prevOk, lastMsg, outcomes, okWeeks, hung>>

\* Line 143 and the end of the with block; line 152 is next.
TransportWriteError ==
    /\ Pos("transport", "w_error")
    /\ cache' = ClearError(cache, "transport")
    /\ Release
    /\ Commit("transport")
    /\ acqAt' = [acqAt EXCEPT !["transport"] = 0]
    /\ Goto("transport", "trd_hour")
    /\ UNCHANGED <<now, envVars, ghostVars, localVars, dinVars, readerVars,
                   attempts, lastOk, prevOk, lastMsg, outcomes, okWeeks, hung>>

\* Line 412: the dinners with block goes on to line 413.
DinnersWriteError ==
    /\ Pos("dinners", "w_error")
    /\ cache' = ClearError(cache, "dinners")
    /\ Goto("dinners", "w_week")
    /\ UNCHANGED <<now, envVars, ghostVars, lock, localVars, dinVars, readerVars, histVars>>

\* Line 413 and the end of the with block; line 423 is next.
DinnersWriteWeek ==
    /\ Pos("dinners", "w_week")
    /\ cache' = [cache EXCEPT !["dinners"].week = current_monday]
    /\ Release
    /\ Commit("dinners")
    /\ acqAt' = [acqAt EXCEPT !["dinners"] = 0]
    /\ delay' = [delay EXCEPT !["dinners"] = DINNERS_SLEEP]
    /\ Goto("dinners", "do_sleep")
    /\ UNCHANGED <<now, envVars, ghostVars, hr, total_mins, data, exc, secs, wake, dinVars, readerVars,
                   attempts, lastOk, prevOk, lastMsg, outcomes, okWeeks, hung>>

\* "with _lock:" of the except clause (lines 235, 420).
AcquireForFailure(s) ==
    /\ Pos(s, "acq_err")
    /\ Acquire(LoopTid(s))
    /\ acqAt' = [acqAt EXCEPT ![s] = now]
    /\ Goto(s, "w_fail")
    /\ UNCHANGED <<now, envVars, ghostVars, cache, localVars, dinVars, readerVars,
                   attempts, lastOk, prevOk, lastMsg, outcomes, committed, okWeeks, hung>>

\* Variants: a failure that also drops the payload; one that keeps the first
\* message instead of the latest; one that writes the timetable cache
\* whatever the loop.
FailureWriteClearing(c, s, msg) == [c EXCEPT ![s].error = msg, ![s].data = None]
FailureWriteFirst(c, s, msg) == IF c[s].error = None THEN [c EXCEPT ![s].error = msg] ELSE c
FailureWriteTimetable(c, s, msg) == [c EXCEPT !["timetable"].error = msg]
\* cache["error"] = str(exc) (lines 236, 421).
FailureWrite(c, s, msg) == [c EXCEPT ![s].error = msg]

\* Variant: the except clause records the message and raises again, which
\* ends the thread.
WriteFailureThenRaise(s) ==
    /\ Pos(s, "w_fail")
    /\ cache' = FailureWrite(cache, s, exc[s])
    /\ Release
    /\ Commit(s)
    /\ acqAt' = [acqAt EXCEPT ![s] = 0]
    /\ exc' = [exc EXCEPT ![s] = None]
    /\ Goto(s, "terminated")
    /\ UNCHANGED <<now, envVars, ghostVars, hr, total_mins, data, secs, delay, wake, dinVars, readerVars,
                   attempts, lastOk, prevOk, lastMsg, outcomes, okWeeks, hung>>
\* Variant: after a failure the loop waits ten minutes only.
WriteFailureRetrySoon(s) ==
    /\ Pos(s, "w_fail")
    /\ cache' = FailureWrite(cache, s, exc[s])
    /\ Release
    /\ Commit(s)
    /\ acqAt' = [acqAt EXCEPT ![s] = 0]
    /\ exc' = [exc EXCEPT ![s] = None]
    /\ delay' = [delay EXCEPT ![s] = PEAK_DELAY]
    /\ Goto(s, "do_sleep")
    /\ UNCHANGED <<now, envVars, ghostVars, hr, total_mins, data, secs, wake, dinVars, readerVars,
                   attempts, lastOk, prevOk, lastMsg, outcomes, okWeeks, hung>>
\* Lines 148, 236, 421 and the end of the with block; lines 152, 237, 423
\* are next.
WriteFailure(s) ==
    /\ Pos(s, "w_fail")
    /\ cache' = FailureWrite(cache, s, exc[s])
    /\ Release
    /\ Commit(s)
    /\ acqAt' = [acqAt EXCEPT ![s] = 0]
    /\ exc' = [exc EXCEPT ![s] = None]
    /\ delay' = [delay EXCEPT ![s] = IF s = "dinners" THEN DINNERS_SLEEP
                                      ELSE IF s = "timetable" THEN PRONOTE_SLEEP ELSE @]
    /\ Goto(s, IF s = "transport" THEN "trd_hour" ELSE "do_sleep")
    /\ UNCHANGED <<now, envVars, ghostVars, hr, total_mins, data, secs, wake, dinVars, readerVars,
                   attempts, lastOk, prevOk, lastMsg, outcomes, okWeeks, hung>>

\* ----------------------------------------------------- night branch, sleep
\* secs = _secs_until_715() (lines 150, 239); the timetable loop sleeps secs,
\* the transport loop goes on to train_refresh_delay().
NightSecs(s) ==
    /\ Pos(s, "night")
    /\ secs' = [secs EXCEPT ![s] = secs_until_715(now)]
    /\ delay' = [delay EXCEPT ![s] = IF s = "timetable" THEN secs_until_715(now) ELSE @]
    /\ total_mins' = [total_mins EXCEPT ![s] = 0]
    /\ Goto(s, IF s = "timetable" THEN "do_sleep" ELSE "trd_hour")
    /\ UNCHANGED <<now, envVars, ghostVars, lock, cache, hr, data, exc, wake,
                   dinVars, readerVars, histVars>>

\* time.sleep(delay) begins (lines 152, 237, 241, 423). The locals of the
\* iteration are dead from here on.
StartSleep(s) ==
    /\ Pos(s, "do_sleep")
    /\ wake' = [wake EXCEPT ![s] = now + delay[s]]
    /\ Goto(s, "sleeping")
    /\ secs' = [secs EXCEPT ![s] = 0]
    /\ delay' = [delay EXCEPT ![s] = 0]
    /\ IF s = "dinners"
         THEN /\ weekday' = 0
              /\ current_monday' = None
              /\ cached_week' = None
              /\ should_refresh' = FALSE
              /\ checkAt' = 0
         ELSE UNCHANGED dinVars
    /\ nightAt' = [nightAt EXCEPT ![s] = Never]
    /\ UNCHANGED <<now, envVars, sampledAt, lock, cache, hr, total_mins, data, exc,
                   readerVars, histVars>>

\* time.sleep returns; "while True" starts the next iteration.
EndSleep(s) ==
    /\ Pos(s, "sleeping")
    /\ now >= wake[s]
    /\ Goto(s, "loop")
    /\ wake' = [wake EXCEPT ![s] = 0]
    /\ UNCHANGED <<now, envVars, ghostVars, lock, cache, hr, total_mins, data, exc, secs, delay,
                   dinVars, readerVars, histVars>>

\* ---------------------------------------------------- train_refresh_delay
\* Line 126, first datetime.now(): the hour.
TrdHour ==
    /\ Pos("transport", "trd_hour")
    /\ hr' = [hr EXCEPT !["transport"] = HourOf(now)]
    /\ Goto("transport", "trd_min")
    /\ sampledAt' = [sampledAt EXCEPT !["transport"] = now]
    /\ UNCHANGED <<now, envVars, nightAt, lock, cache, total_mins, data, exc, secs, delay, wake,
                   dinVars, readerVars, histVars>>

\* Variant: 09:00 itself still counted as peak.
DayDelayInclusive(total) == IF total <= PEAK_END_MINS THEN PEAK_DELAY ELSE OFFPEAK_DELAY
\* Lines 129-131.
DayDelay(total) == IF total < PEAK_END_MINS THEN PEAK_DELAY ELSE OFFPEAK_DELAY

\* Line 126, second datetime.now(): the minute; lines 127-131.
TrdMinute ==
    /\ Pos("transport", "trd_min")
    /\ LET total == hr["transport"] * 60 + MinuteOf(now) IN
        IF NightMins(total)
          THEN /\ Goto("transport", "trd_secs")
               /\ delay' = delay
               /\ sampledAt' = sampledAt
          ELSE /\ Goto("transport", "do_sleep")
               /\ delay' = [delay EXCEPT !["transport"] = DayDelay(total)]
               /\ sampledAt' = [sampledAt EXCEPT !["transport"] = Never]
    /\ hr' = [hr EXCEPT !["transport"] = 0]
    /\ UNCHANGED <<now, envVars, nightAt, lock, cache, total_mins, data, exc, secs, wake,
                   dinVars, readerVars, histVars>>

\* Line 128: return _secs_until_715().
TrdSecs ==
    /\ Pos("transport", "trd_secs")
    /\ delay' = [delay EXCEPT !["transport"] = secs_until_715(now)]
    /\ Goto("transport", "do_sleep")
    /\ sampledAt' = [sampledAt EXCEPT !["transport"] = Never]
    /\ UNCHANGED <<now, envVars, nightAt, lock, cache, hr, total_mins, data, exc, secs, wake,
                   dinVars, readerVars, histVars>>

\* ------------------------------------------------- dinners: weekly window
\* Lines 392-393: today = date.today(); weekday = today.weekday().
DinnersToday ==
    /\ Pos("dinners", "loop")
    /\ weekday' = WeekdayOf(DateToday(now))
    /\ checkAt' = now
    /\ Goto("dinners", "d_monday")
    /\ UNCHANGED <<now, envVars, ghostVars, lock, cache, localVars, current_monday, cached_week,
                   should_refresh, readerVars, histVars>>

\* Line 394: current_monday = str(_current_monday()), a second date.today().
DinnersMonday ==
    /\ Pos("dinners", "d_monday")
    /\ current_monday' = DateStr(current_monday_at(now))
    /\ Goto("dinners", "d_acq_week")
    /\ UNCHANGED <<now, envVars, ghostVars, lock, cache, localVars, weekday, cached_week,
                   should_refresh, checkAt, readerVars, histVars>>

\* Line 396: with _lock.
DinnersAcquireWeek ==
    /\ Pos("dinners", "d_acq_week")
    /\ Acquire(LoopTid("dinners"))
    /\ Goto("dinners", "d_read_week")
    /\ UNCHANGED <<now, envVars, ghostVars, cache, localVars, dinVars, readerVars, histVars>>

\* Line 397: cached_week = _dinners_cache["week"], and the end of the with block.
DinnersReadWeek ==
    /\ Pos("dinners", "d_read_week")
    /\ cached_week' = cache["dinners"].week
    /\ Release
    /\ Goto("dinners", "d_window")
    /\ UNCHANGED <<now, envVars, ghostVars, cache, localVars, weekday, current_monday,
                   should_refresh, checkAt, readerVars, histVars>>

\* Lines 400-403; datetime.now().hour is sampled only when weekday is 0.
is_refresh_window(wd, t) == wd >= SATURDAY \/ (wd = 0 /\ HourOf(t) < NOON_HOUR)
\* Variant: the week marker is not consulted.
ShouldRefreshWindowOnly(cw, cm, window) == window
\* Line 404.
ShouldRefresh(cw, cm, window) == (cw # cm) /\ window

\* Lines 400-406 and, when there is nothing to do, line 416.
DinnersWindow ==
    /\ Pos("dinners", "d_window")
    /\ LET sr == ShouldRefresh(cached_week, current_monday, is_refresh_window(weekday, now)) IN
        /\ should_refresh' = sr
        /\ IF sr THEN /\ Goto("dinners", "call")
                      /\ delay' = delay
                 ELSE /\ Goto("dinners", "do_sleep")
                      /\ delay' = [delay EXCEPT !["dinners"] = DINNERS_SLEEP]
    /\ UNCHANGED <<now, envVars, ghostVars, lock, cache, hr, total_mins, data, exc, secs, wake,
                   weekday, current_monday, cached_week, checkAt, readerVars, histVars>>

\* ------------------------------------------------------------ the routes
Loading == <<"Loading">>
Waiting == <<"En attente du prochain week-end">>
\* error or "Loading..." (lines 432, 441, 450).
ErrorOr(e, s) == IF e # None THEN e ELSE IF s = "dinners" THEN Waiting ELSE Loading

\* A request for /api/timetable, /api/trains or /api/dinners arrives.
Request(r, s) ==
    /\ r <= clients
    /\ rpc[r] = "idle"
    /\ rpc' = [rpc EXCEPT ![r] = "acquire"]
    /\ rslot' = [rslot EXCEPT ![r] = s]
    /\ resp' = [resp EXCEPT ![r] = None]
    /\ UNCHANGED <<now, envVars, ghostVars, lock, cache, pc, localVars, dinVars, histVars>>

\* with _lock (lines 430, 439, 448).
ReaderAcquire(r) ==
    /\ rpc[r] = "acquire"
    /\ Acquire(ReaderTid(r))
    /\ rpc' = [rpc EXCEPT ![r] = "check"]
    /\ UNCHANGED <<now, envVars, ghostVars, cache, pc, localVars, dinVars, rslot, resp, histVars>>

\* if cache["data"] is None (lines 431, 440, 449).
ReaderCheck(r) ==
    /\ rpc[r] = "check"
    /\ rpc' = [rpc EXCEPT ![r] = IF cache[rslot[r]].data = None THEN "error" ELSE "body"]
    /\ UNCHANGED <<now, envVars, ghostVars, lock, cache, pc, localVars, dinVars, rslot, resp, histVars>>

\* The 503 answer (lines 432-433, 441-442, 450-451), leaving the with block.
ReaderError(r) ==
    /\ rpc[r] = "error"
    /\ resp' = [resp EXCEPT ![r] = <<rslot[r], 503, ErrorOr(cache[rslot[r]].error, rslot[r])>>]
    /\ Release
    /\ rpc' = [rpc EXCEPT ![r] = "idle"]
    /\ UNCHANGED <<now, envVars, ghostVars, cache, pc, localVars, dinVars, rslot, histVars>>

\* The 200 answer (lines 434, 443, 452), leaving the with block.
ReaderBody(r) ==
    /\ rpc[r] = "body"
    /\ resp' = [resp EXCEPT ![r] =
                  <<rslot[r], 200, cache[rslot[r]].data, cache[rslot[r]].updated_at>>]
    /\ Release
    /\ rpc' = [rpc EXCEPT ![r] = "idle"]
    /\ UNCHANGED <<now, envVars, ghostVars, cache, pc, localVars, dinVars, rslot, histVars>>

\* ---------------------------------------------------------------- time
\* The clock advances to the next multiple of TickSecs or to the end of the
\* first time.sleep to finish; a time.sleep that is over returns before it does.
NextInstant(t, wakes) ==
    LET grid == ((t \div TickSecs) + 1) * TickSecs
        cand == {grid} \cup wakes
    IN  CHOOSE c \in cand : \A d \in cand : c <= d

Sleeping == {s \in Loops : pc[s] = "sleeping"}

Tick ==
    /\ now < deadline
    /\ \A s \in Sleeping : now < wake[s]
    /\ now' = NextInstant(now, {wake[s] : s \in Sleeping})
    /\ UNCHANGED <<envVars, ghostVars, lock, cache, pc, localVars, dinVars, readerVars, histVars>>

Next ==
    \/ \E s \in NightLoops : IsNightHour(s)
    \/ \E s \in NightLoops : IsNightMinute(s)
    \/ \E s \in Loops : CallProducer(s)
    \/ PronoteReturn
    \/ TrainsReturn
    \/ DinnersReturn
    \/ PronoteRaise
    \/ DinnersRaise
    \/ \E s \in Loops : Hang(s)
    \/ \E s \in Loops : AcquireForSuccess(s)
    \/ \E s \in Loops : WriteData(s)
    \/ \E s \in Loops : WriteUpdatedAt(s)
    \/ PronoteWriteError
    \/ TransportWriteError
    \/ DinnersWriteError
    \/ DinnersWriteWeek
    \/ \E s \in Loops : AcquireForFailure(s)
    \/ \E s \in Loops : WriteFailure(s)
    \/ \E s \in NightLoops : NightSecs(s)
    \/ \E s \in Loops : StartSleep(s)
    \/ \E s \in Loops : EndSleep(s)
    \/ TrdHour
    \/ TrdMinute
    \/ TrdSecs
    \/ DinnersToday
    \/ DinnersMonday
    \/ DinnersAcquireWeek
    \/ DinnersReadWeek
    \/ DinnersWindow
    \/ \E r \in Readers, s \in Loops : Request(r, s)
    \/ \E r \in Readers : ReaderAcquire(r)
    \/ \E r \in Readers : ReaderCheck(r)
    \/ \E r \in Readers : ReaderError(r)
    \/ \E r \in Readers : ReaderBody(r)
    \/ Tick

Spec == Init /\ [][Next]_vars

\* ------------------------------------------------------------- scheduling
\* Each loop is a daemon thread of its own (lines 460-462) and each request
\* is served by a thread of the Flask server (line 464): the scheduler gives
\* every thread that can take a step a turn, and a thread that waits for
\* _lock gets it after finitely many releases.
LoopMove(s) ==
    \/ s \in NightLoops /\ (IsNightHour(s) \/ IsNightMinute(s) \/ NightSecs(s))
    \/ CallProducer(s) \/ WriteData(s) \/ WriteUpdatedAt(s)
    \/ StartSleep(s) \/ EndSleep(s)
    \/ s = "timetable" /\ (PronoteWriteError \/ WriteFailure(s))
    \/ s = "transport" /\ (TransportWriteError \/ WriteFailure(s)
                              \/ TrdHour \/ TrdMinute \/ TrdSecs)
    \/ s = "dinners" /\ (DinnersWriteError \/ DinnersWriteWeek \/ WriteFailure(s)
                            \/ DinnersToday \/ DinnersMonday \/ DinnersReadWeek
                            \/ DinnersWindow)
LoopAcquire(s) ==
    \/ AcquireForSuccess(s)
    \/ AcquireForFailure(s)
    \/ s = "dinners" /\ DinnersAcquireWeek
\* A producer call in progress comes to an end, unless it is one that hangs.
ProducerEnds(s) ==
    \/ s = "timetable" /\ (PronoteReturn \/ PronoteRaise)
    \/ s = "transport" /\ TrainsReturn
    \/ s = "dinners" /\ (DinnersReturn \/ DinnersRaise)
    \/ Hang(s)
LoopStep(s) == LoopMove(s) \/ LoopAcquire(s) \/ ProducerEnds(s)
ReaderStep(r) == ReaderAcquire(r) \/ ReaderCheck(r) \/ ReaderError(r) \/ ReaderBody(r)

\* Time passes; a thread is at one statement at a time, so strong fairness of
\* its steps is weak fairness of every statement but the acquisition of
\* _lock, and strong fairness of that one.
Fairness ==
    /\ WF_vars(Tick)
    /\ \A s \in Loops : SF_vars(LoopStep(s))
    /\ \A r \in Readers : SF_vars(ReaderStep(r))

\* The runs followed under fair scheduling: the three loops started together
\* on a Saturday evening, two of them with a request thread, and the two
\* loops with a night rule from the end of a night into the morning.
LiveScenarios == {
    <<Clock(5, 21, 45), BurstHorizon, Loops, 0>>,
    <<Clock(5, 21, 45), LiveHorizon, {"timetable", "dinners"}, 1>>,
    <<Clock(0, 7, 0), LiveHorizon, NightLoops, 0>> }
LiveInit == \E sc \in LiveScenarios : InitAt(sc[1], sc[2], sc[3], sc[4])
LiveSpec == LiveInit /\ [][Next]_vars /\ Fairness

\* ================================================================ claims
\* Positions between the end of a producer call and the release of the lock
\* that publishes its outcome.
Publishing == {"acq_ok", "w_data", "w_updated_at", "w_error", "w_week", "acq_err", "w_fail"}
\* Positions inside a with _lock block of a loop.
InCritical == {"w_data", "w_updated_at", "w_error", "w_week", "w_fail", "d_read_week"}
\* Positions at which a loop waits for the lock.
AtAcquire == {"acq_ok", "acq_err", "d_acq_week"}
\* The payload a cache shows: the last returned value, or the one before it
\* until the loop has stored the last one.
Shown(s) == IF pc[s] \in {"acq_ok", "w_data"} THEN prevOk[s] ELSE lastOk[s]
\* The clock samples possible between instants a and b (minute precision).
Between(a, b) == {a + 60 * k : k \in 0..((b - a) \div 60)}
LastOutcome(s) == outcomes[s][Len(outcomes[s])]
Range(f) == {f[i] : i \in DOMAIN f}
DefaultMsg(s) == IF s = "dinners" THEN Waiting ELSE Loading

\* The parts of C1: the payload, and the steps that write a failure or answer.
C1_Shown == \A s \in Loops : cache[s].data = Shown(s)
C1_Step ==
    /\ \A s \in Loops :
        (pc[s] = "w_fail" /\ pc'[s] # "w_fail") =>
            /\ cache'[s] = [cache[s] EXCEPT !.error = exc[s]]
            /\ \A o \in Loops \ {s} : cache'[o] = cache[o]
    /\ \A r \in Readers :
        /\ (rpc[r] = "body" /\ rpc'[r] = "idle") =>
              resp'[r][2] = 200 /\ resp'[r][3] = Shown(rslot[r]) /\ Shown(rslot[r]) # None
        /\ (rpc[r] = "error" /\ rpc'[r] = "idle") =>
              resp'[r][2] = 503 /\ Shown(rslot[r]) = None
\* C1: in every cache the payload is the value of the most recent successful
\* producer call (None when there has been none), a request is answered with
\* that payload, and the write of a failure changes nothing but the error.
C1_PayloadIsLastSuccess == [](C1_Shown) /\ [][C1_Step]_vars
\* A request is about to be answered from a cache that holds the payload of
\* an earlier success and the error of the failure that followed it.
C1_Witness ==
    \E r \in Readers :
        LET s == rslot[r] IN
        /\ rpc[r] = "body" /\ lock = ReaderTid(r)
        /\ outcomes[s] # <<>> /\ LastOutcome(s) = "fail" /\ pc[s] = "sleeping"
        /\ cache[s].data = lastOk[s] /\ lastOk[s] # None
        /\ cache[s].error = lastMsg[s] /\ lastMsg[s] # None

\* The answer a route gives from cache contents c.
AnswerOf(c, s) ==
    IF c.data = None THEN <<s, 503, ErrorOr(c.error, s)>>
                     ELSE <<s, 200, c.data, c.updated_at>>
\* C2: every answer a request gets, and every week marker the dinners loop
\* reads, is taken from the cache as one release of the lock by its writer
\* left it (or as it was created).
C2_NoTornRead ==
    /\ \A r \in Readers :
        resp[r] # None => \E c \in committed[resp[r][1]] : resp[r] = AnswerOf(c, resp[r][1])
    /\ \E c \in committed["dinners"] : cached_week = c.week \/ cached_week = None
\* A request holds the lock on a cache that already has a payload while the
\* cache's loop waits to store the next one.
C2_Witness ==
    \E r \in Readers :
        /\ lock = ReaderTid(r) /\ rpc[r] = "body"
        /\ pc[rslot[r]] = "acq_ok" /\ cache[rslot[r]].data # None

\* The parts of C3: the cache after the write, and the steps of the write.
C3_Stored ==
    \A s \in Loops :
        (outcomes[s] # <<>> /\ pc[s] \notin Publishing /\ LastOutcome(s) = "ok") =>
            /\ cache[s].data = lastOk[s]
            /\ cache[s].error = None
            /\ cache[s].updated_at # None
C3_Step ==
    \A s \in Loops :
        /\ (pc[s] \in {"w_error", "w_week"} /\ lock' = Free /\ lock = LoopTid(s)) =>
              \E t \in Between(acqAt[s], now) : cache'[s].updated_at = StrfHM(t)
        /\ cache'[s] # cache[s] => lock = LoopTid(s)
\* C3: after a successful call has been stored the cache holds its value, a
\* time sampled while the lock was held for that write, and no error; the
\* three fields change only while their loop holds the lock.
C3_SuccessWrite == [](C3_Stored) /\ [][C3_Step]_vars
\* Two failures, then a success, stored.
C3_Witness ==
    \E s \in Loops :
        /\ outcomes[s] = <<"fail", "fail", "ok">> /\ pc[s] = "sleeping"
        /\ cache[s].data = lastOk[s] /\ lastOk[s] # None

\* C4: a cache starts empty; while no call has succeeded its payload and time
\* stay None and, once a failure is stored, its error is the message of the
\* latest failure; a request made then is answered 503, with the default
\* text only if it may have been served before any failure was stored.
C4_FailuresOnly ==
    \A s \in Loops :
        /\ outcomes[s] = <<>> => cache[s] = (IF s = "dinners" THEN EmptyDinnersCache ELSE EmptyCache)
        /\ "ok" \notin Range(outcomes[s]) =>
              /\ cache[s].data = None /\ cache[s].updated_at = None
              /\ (outcomes[s] # <<>> /\ pc[s] \notin Publishing) =>
                     cache[s].error = lastMsg[s] /\ lastMsg[s] # None
              /\ \A r \in Readers :
                    (resp[r] # None /\ resp[r][1] = s) =>
                        /\ resp[r][2] = 503
                        /\ outcomes[s] = <<>> => resp[r][3] = DefaultMsg(s)
                        /\ resp[r][3] # DefaultMsg(s) =>
                              \E n \in 1..attempts[s] : resp[r][3] = ExcStr(n)
\* Two failures and no success, and a request answered with the second message.
C4_Witness ==
    \E s \in Loops : \E r \in Readers :
        /\ outcomes[s] = <<"fail", "fail">> /\ pc[s] = "sleeping"
        /\ resp[r] = <<s, 503, ExcStr(2)>>

\* C5: the lock is held only by a thread that stands inside one of its with
\* blocks; no loop holds it while its producer call is in progress.
C5_NoLockAcrossProducer ==
    /\ \A s \in Loops : lock = LoopTid(s) <=> pc[s] \in InCritical
    /\ \A s \in Loops : pc[s] \in {"call", "fetching"} => lock # LoopTid(s)
    /\ \A r \in Readers : lock = ReaderTid(r) <=> rpc[r] \in {"check", "error", "body"}
\* A producer call in progress while another thread is inside its with block.
C5_Witness == \E s \in Loops : pc[s] = "fetching" /\ s \notin hung /\ lock # Free

\* C6 as stated: a loop that has reached a with _lock never finds the lock
\* held by the loop of another source.
C6_Claim ==
    \A s \in Loops : pc[s] \in AtAcquire => \A o \in Loops \ {s} : lock # LoopTid(o)
\* The parts of the amended C6.
C6_Step ==
    \A s \in Loops :
        cache'[s] # cache[s] =>
            /\ lock = LoopTid(s)
            /\ pc[s] \in InCritical
            /\ \A o \in Loops \ {s} : cache'[o] = cache[o] /\ pc'[o] = pc[o]
C6_Waits ==
    \A s \in Loops : \A o \in Loops \ {s} :
        (pc[s] \in AtAcquire /\ lock = LoopTid(o)) => pc[o] \in InCritical
\* C6 as amended: the loops share no cache (a cache changes only in a step of
\* its own loop, holding the lock, and no other cache changes in that step);
\* they share _lock, and a loop that waits for it while another source's loop
\* holds it waits for an in-memory section, never for that source's producer.
C6_SharedLockOnly == [](C6_Waits) /\ [][C6_Step]_vars
\* A loop waits for the lock while the loop of another source holds it.
C6_Witness ==
    \E s \in Loops : \E o \in Loops \ {s} : pc[s] \in AtAcquire /\ lock = LoopTid(o)

\* Loop s is in a time.sleep that ends after the run.
Resting(s) == pc[s] = "sleeping" /\ wake[s] > deadline
\* A step leaves a hung loop and its cache as they are.
C7_Hung ==
    \A s \in Loops : s \in hung => pc'[s] = pc[s] /\ cache'[s] = cache[s] /\ s \in hung'
\* C7: under fair scheduling, whatever loops have a producer call that hangs,
\* every other loop goes through each iteration that falls due within the
\* run (it always comes to rest again in a time.sleep that ends after the
\* run, with the last value its producer returned stored in its cache), and
\* every request is answered; a loop whose producer call hangs takes no
\* further step and its cache no longer changes.
C7_HangStallsOnlyItsLoop ==
    /\ \A s \in Loops :
          []<>(s \notin run \/ s \in hung \/ (Resting(s) /\ cache[s].data = lastOk[s]))
    /\ \A r \in Readers : []<>(rpc[r] = "idle")
    /\ [][C7_Hung]_vars
\* One producer call hangs; another loop has stored the value its producer
\* returned and a request for the hung source has been answered.
C7_Witness ==
    \E s \in Loops :
        /\ hung = {s} /\ cache[s].data = None
        /\ \E o \in Loops \ {s} :
              pc[o] = "sleeping" /\ cache[o].data # None /\ cache[o].data = lastOk[o]
        /\ \E r \in Readers : rpc[r] = "idle" /\ resp[r] = <<s, 503, DefaultMsg(s)>>

\* The night window of the specification, for a clock value and for a
\* number of minutes since midnight.
InNightWindow(m) == m >= 22 * 60 \/ m < 7 * 60 + 15
NightAt(t) == InNightWindow(HourOf(t) * 60 + MinuteOf(t))

\* C8 as stated: no loop starts a producer call while the clock is in the
\* night window.
C8_Claim ==
    [][\A s \in Loops : (pc[s] = "call" /\ pc'[s] = "fetching") => ~NightAt(now)]_vars
\* The steps of the amended C8.
C8_Step ==
    \A s \in NightLoops :
        /\ (pc'[s] = "fetching" /\ pc[s] # "fetching") =>
              pc[s] = "call" /\ ~InNightWindow(total_mins[s])
        /\ (pc[s] = "night_min" /\ pc'[s] # "night_min") =>
              /\ total_mins'[s] = hr[s] * 60 + MinuteOf(now)
              /\ pc'[s] = (IF InNightWindow(total_mins'[s]) THEN "night" ELSE "call")
        /\ pc'[s] = "call" => pc[s] \in {"night_min", "call"}
        /\ pc[s] \in {"night", "trd_hour", "trd_min", "trd_secs", "do_sleep"} =>
              pc'[s] \in {"night", "trd_hour", "trd_min", "trd_secs", "do_sleep", "sleeping"}
\* C8 as amended: the timetable and transport loops start a producer call
\* only after an _is_night() of the same iteration whose total_mins lies
\* outside the night window, and an _is_night() whose total_mins lies inside
\* it sends the loop to its night branch, from which it reaches time.sleep
\* without a producer call. (The dinners loop is not concerned.)
C8_NightCheckGuardsCall == [][C8_Step]_vars
\* A loop that has refreshed during the day finds the night and sleeps to 07:15.
C8_Witness ==
    \E s \in NightLoops :
        /\ attempts[s] >= 1 /\ pc[s] = "sleeping" /\ NightAt(now)
        /\ HourOf(wake[s]) = 7 /\ MinuteOf(wake[s]) = 15

\* C9: no two successful dinners writes fall in the same calendar week.
C9_Claim ==
    \A i \in DOMAIN okWeeks : \A j \in DOMAIN okWeeks : i # j => okWeeks[i] # okWeeks[j]

\* The refresh window and the rule of the specification, at instant t.
WindowOpenAt(t) ==
    \/ WeekdayOf(DateToday(t)) \in {5, 6}
    \/ WeekdayOf(DateToday(t)) = 0 /\ HourOf(t) < 12
ShouldRunAt(t) == cache["dinners"].week # DateStr(current_monday_at(t)) /\ WindowOpenAt(t)
\* The dinners check has come to its decision.
Decided ==
    \/ pc["dinners"] = "call"
    \/ pc["dinners"] = "do_sleep" /\ ~should_refresh
\* C10: the decision of a dinners check is "run" exactly when, at some
\* instant of the check, the cached week marker differs from that instant's
\* Monday and that instant lies on a Saturday, a Sunday or a Monday morning.
C10_Claim ==
    Decided => \E t \in Between(checkAt, now) : (pc["dinners"] = "call") <=> ShouldRunAt(t)

\* Loop s cannot take a step now: it waits for _lock, for the end of its
\* time.sleep, or for its producer.
LoopBlocked(s) ==
    \/ pc[s] \in AtAcquire /\ lock # Free
    \/ pc[s] = "sleeping" /\ now < wake[s]
    \/ pc[s] = "fetching"
\* The steps from a producer's exception to the loop's sleep.
C11_Step ==
    \A s \in Loops :
        /\ (pc[s] = "fetching" /\ Len(outcomes'[s]) > Len(outcomes[s])
                /\ outcomes'[s][Len(outcomes'[s])] = "fail") =>
              pc'[s] = "acq_err" /\ cache' = cache
        /\ (pc[s] = "acq_err" /\ pc'[s] # "acq_err") =>
              pc'[s] = "w_fail" /\ cache' = cache
        /\ (pc[s] = "w_fail" /\ pc'[s] # "w_fail") =>
              /\ pc'[s] = "do_sleep" /\ delay'[s] = 3600
              /\ cache'[s].error = lastMsg[s] /\ lock' = Free
              /\ \A o \in Loops \ {s} : cache'[o] = cache[o] /\ pc'[o] = pc[o]
\* C11: a producer's exception leads the loop, through the write of the
\* message into its own cache and of nothing else, to its time.sleep; and
\* whatever has failed before, a loop that does not wait for the lock, for
\* the end of a sleep or for its producer can take its next step.
C11_FailureContained ==
    /\ [](\A s \in run : LoopBlocked(s) \/ ENABLED LoopStep(s))
    /\ [][C11_Step]_vars
\* A loop back at its decision point after two failures in a row, the other
\* caches untouched.
C11_Witness ==
    \E s \in {"timetable", "dinners"} :
        /\ outcomes[s] = <<"fail", "fail">> /\ pc[s] = "loop"
        /\ cache[s].error = ExcStr(2)
        /\ \A o \in Loops \ {s} : cache[o].error = None

\* C12: an _is_night() whose two clock reads fall on the same instant
\* returns True exactly when the time of day of that instant is at or after
\* 22:00 or before 07:15.
C12_NightPolicy ==
    [][\A s \in NightLoops :
          (pc[s] = "night_min" /\ pc'[s] # "night_min" /\ sampledAt[s] = now) =>
              /\ pc'[s] \in {"night", "call"}
              /\ pc'[s] = "night" <=> NightAt(now)]_vars
\* _is_night() has returned True at 07:14.
C12_Witness ==
    \E s \in NightLoops :
        pc[s] = "night" /\ nightAt[s] = now /\ HourOf(now) = 7 /\ MinuteOf(now) = 14

\* The first 07:15:00 strictly after instant t.
First0715After(t) ==
    LET later == {d * DaySecs + 7 * 3600 + 15 * 60 : d \in 0 .. (DateToday(t) + 1)}
                    \ (0 .. t)
    IN  CHOOSE u \in later : \A v \in later : u <= v
\* C13: every call of _secs_until_715() returns the number of seconds from
\* the instant of the call to the first 07:15:00 strictly after it, a
\* number greater than 0 and at most 86400.
C13_SecsUntil0715 ==
    [][/\ \A s \in NightLoops :
             (pc[s] = "night" /\ pc'[s] # "night") =>
                 /\ secs'[s] = First0715After(now) - now
                 /\ secs'[s] > 0 /\ secs'[s] <= 86400
       /\ (pc["transport"] = "trd_secs" /\ pc'["transport"] # "trd_secs") =>
                 /\ delay'["transport"] = First0715After(now) - now
                 /\ delay'["transport"] > 0 /\ delay'["transport"] <= 86400]_vars
\* A call at 07:15:00 sharp has returned 86400.
C13_Witness ==
    \E s \in NightLoops :
        /\ pc[s] \in {"do_sleep", "trd_hour"} /\ secs[s] = 86400
        /\ HourOf(now) = 7 /\ MinuteOf(now) = 15

\* The transport cadence of the specification at instant t.
CadenceAt(t) ==
    LET m == HourOf(t) * 60 + MinuteOf(t) IN
    IF InNightWindow(m) THEN First0715After(t) - t
    ELSE IF m < 9 * 60 THEN 600 ELSE 3600
\* C14: a train_refresh_delay() whose clock reads fall on the same instant
\* returns the time to the next 07:15 in the night window, 600 from 07:15
\* to 08:59 and 3600 otherwise; the transport loop calls it after every
\* attempt and sleeps what it returned.
C14_TransportCadence ==
    [][LET s == "transport" IN
       /\ (pc[s] = "w_error" /\ pc'[s] # "w_error") => pc'[s] = "trd_hour"
       /\ (pc[s] = "trd_min" /\ pc'[s] # "trd_min" /\ sampledAt[s] = now) =>
              IF InNightWindow(HourOf(now) * 60 + MinuteOf(now))
                THEN pc'[s] = "trd_secs"
                ELSE pc'[s] = "do_sleep" /\ delay'[s] = CadenceAt(now)
       /\ (pc[s] = "trd_secs" /\ pc'[s] # "trd_secs" /\ sampledAt[s] = now) =>
              pc'[s] = "do_sleep" /\ delay'[s] = CadenceAt(now)
       /\ (pc[s] = "do_sleep" /\ pc'[s] # "do_sleep") =>
              pc'[s] = "sleeping" /\ wake'[s] = now + delay[s]]_vars
\* After an attempt at 08:30 the transport loop is about to sleep 600 s.
C14_Witness ==
    /\ pc["transport"] = "do_sleep" /\ delay["transport"] = 600
    /\ attempts["transport"] = 1 /\ HourOf(now) = 8 /\ MinuteOf(now) = 30

C16_Claim ==
    [][\A s \in NightLoops :
         (pc[s] # "do_sleep" /\ pc'[s] = "do_sleep" /\ nightAt[s] # Never) =>
            now + delay'[s] = First0715After(nightAt[s])]_vars

\* The steps of the dinners loop around a failed and a successful attempt.
C17_Step ==
    LET d == "dinners" IN
    /\ (pc[d] \in {"fetching", "acq_err", "w_fail"} /\ pc'[d] \notin {"acq_ok", "fetching"}) =>
          cache'[d].week = cache[d].week
    /\ (pc[d] = "w_fail" /\ pc'[d] # "w_fail") =>
          pc'[d] = "do_sleep" /\ delay'[d] = 3600
    /\ (pc[d] = "do_sleep" /\ pc'[d] # "do_sleep") =>
          pc'[d] = "sleeping" /\ wake'[d] = now + 3600
    /\ (pc[d] = "d_window" /\ pc'[d] # "d_window" /\ checkAt = now
            /\ outcomes[d] # <<>> /\ LastOutcome(d) = "fail" /\ WindowOpenAt(now)) =>
          pc'[d] = "call"
    /\ (pc[d] = "w_week" /\ pc'[d] # "w_week") =>
          /\ cache'[d].week = current_monday
          /\ \E t \in Between(checkAt, now) : current_monday = DateStr(current_monday_at(t))
    /\ (pc[d] = "call" /\ pc'[d] = "fetching") =>
          cache[d].week # DateStr(current_monday_at(now))
\* C17: a failed dinners attempt leaves the week marker as it was and is
\* followed by a sleep of one hour; a check made at one instant of an open
\* window after a failure calls the producer again; a success sets the week
\* marker to the Monday its check computed, and the producer is never called
\* at an instant of the week the marker names.
C17_DinnersRetry == [][C17_Step]_vars
\* A failure, a success at the next hourly check, and a third check of the
\* same week that has decided not to call the producer.
C17_Witness ==
    LET d == "dinners" IN
    /\ outcomes[d] = <<"fail", "ok">>
    /\ pc[d] = "do_sleep" /\ ~should_refresh /\ cached_week = current_monday
    /\ cache[d].week = DateStr(current_monday_at(now)) /\ WindowOpenAt(now)
    /\ cache[d].error = None

\* The steps of the timetable loop from the end of an attempt to the next
\* decision.
C18_Step ==
    LET s == "timetable" IN
    /\ (pc[s] \in {"w_error", "w_fail"} /\ pc'[s] # pc[s]) =>
          pc'[s] = "do_sleep" /\ delay'[s] = 3600 /\ nightAt[s] = Never
    /\ (pc[s] = "do_sleep" /\ pc'[s] # "do_sleep" /\ nightAt[s] = Never) =>
          pc'[s] = "sleeping" /\ wake'[s] = now + 3600
    /\ (pc[s] = "sleeping" /\ pc'[s] # "sleeping") =>
          pc'[s] = "loop" /\ now >= wake[s]
    /\ (pc[s] # "call" /\ pc'[s] = "call") => pc[s] = "night_min"
    /\ (pc[s] = "night_min" /\ pc'[s] # "night_min") => pc'[s] \in {"call", "night"}
    /\ (pc[s] # "night_min" /\ pc'[s] = "night_min") => pc[s] = "loop"
    /\ (pc[s] # "loop" /\ pc'[s] = "loop") => pc[s] = "sleeping"
\* C18: the timetable loop goes from the write of an attempt, successful or
\* failed, to a sleep of 3600 s, which it leaves no earlier than 3600 s
\* after it began; the next decision, and with it the next attempt, comes
\* only after that sleep.
C18_TimetableHourly == [][C18_Step]_vars
\* A failed attempt, the hour of sleep, a second attempt and its sleep.
C18_Witness ==
    LET s == "timetable" IN
    /\ outcomes[s] = <<"fail", "ok">>
    /\ pc[s] = "sleeping" /\ wake[s] = now + 3600
    /\ cache[s].error = None /\ cache[s].data # None

\* C19: whenever _lock is free, every cache has updated_at exactly when it
\* has data, the dinners cache has week exactly when it has data, and the
\* error slot is bound to neither.
C19_SlotsPaired ==
    lock = Free =>
        /\ \A s \in Loops : (cache[s].updated_at # None) <=> (cache[s].data # None)
        /\ (cache["dinners"].week # None) <=> (cache["dinners"].data # None)
\* Seen with the lock free: the dinners cache with payload, time stamp and
\* week marker from a success and the error of a later failure, while another
\* attempt is under way.
C19_Witness ==
    LET c == cache["dinners"] IN
    /\ lock = Free
    /\ c.data # None /\ c.updated_at # None /\ c.week # None /\ c.error # None
    /\ outcomes["dinners"] = <<"ok", "fail">>

\* C20: what _is_night answers is the night classification, and what
\* train_refresh_delay returns is the cadence, of one instant between the
\* first clock read of the call and its return.
C20_Claim ==
    [][/\ \A s \in NightLoops :
            (pc[s] = "night_min" /\ pc'[s] # "night_min") =>
                \E t \in Between(sampledAt[s], now) : (pc'[s] = "night") <=> NightAt(t)
       /\ (pc["transport"] \in {"trd_min", "trd_secs"} /\ pc'["transport"] = "do_sleep") =>
                \E t \in Between(sampledAt["transport"], now) :
                    delay'["transport"] = CadenceAt(t)]_vars

====
